---- MODULE Spec2Model ----
(***************************************************************************)
(* A model of semeru-kapasitas.py: the polling loops of                    *)
(* get_kapasitas_by_date, wait_until_tanggal_ada and                       *)
(* wait_until_tanggal_tersedia, the command-line entry point, and the pure *)
(* helpers they use (localized-date normalisation, target matching,        *)
(* year-month derivation).                                                 *)
(*                                                                         *)
(* Python strings are modelled as sequences of one-character strings, so   *)
(* that stripping, lower-casing, searching and formatting are computed     *)
(* rather than assumed.  Python's None is the value None below.            *)
(***************************************************************************)
EXTENDS Integers, Sequences, FiniteSets, TLC

\* ------------------------------------------------------------------------
\* Characters and strings
\* ------------------------------------------------------------------------

\* Python's None.  No string of the model equals it: strings are sequences
\* of one-character strings.
None == <<"None">>

DigitChars == <<"0", "1", "2", "3", "4", "5", "6", "7", "8", "9">>

UpperChars ==
  <<"A", "B", "C", "D", "E", "F", "G", "H", "I", "J", "K", "L", "M",
    "N", "O", "P", "Q", "R", "S", "T", "U", "V", "W", "X", "Y", "Z">>

LowerChars ==
  <<"a", "b", "c", "d", "e", "f", "g", "h", "i", "j", "k", "l", "m",
    "n", "o", "p", "q", "r", "s", "t", "u", "v", "w", "x", "y", "z">>

Range(f) == {f[i] : i \in DOMAIN f}

DigitSet == Range(DigitChars)
AlphaSet == Range(UpperChars) \cup Range(LowerChars)

\* The character U+00B2 (superscript two), written as one token: str.isdigit
\* accepts it, int() and the pattern \d do not
Sup2 == "^2"

\* The characters str.isdigit accepts
IsdigitSet == DigitSet \cup {Sup2}
SpaceSet == {" ", "\t", "\n"}

\* F applied to the value of v.  TLC may evaluate an operator argument or a
\* LET definition again at every use; a bound variable is evaluated once.
\* (Likewise a sequence built as [i \in 1..n |-> e] is followed by \o <<>>
\* below, which yields it as an explicit tuple.)
Let1(v, F(_)) == CHOOSE r \in {F(x) : x \in {v}} : TRUE

Min(a, b) == IF a < b THEN a ELSE b
Max(a, b) == IF a > b THEN a ELSE b

SetMin(S) == CHOOSE m \in S : \A k \in S : m <= k
SetMax(S) == CHOOSE m \in S : \A k \in S : m >= k

\* int(c) for one decimal digit c
DigitVal(c) == (CHOOSE i \in 1..10 : DigitChars[i] = c) - 1

\* str.lower(), one character
LowerChar(c) ==
  IF c \in Range(UpperChars)
    THEN LowerChars[CHOOSE i \in 1..26 : UpperChars[i] = c]
    ELSE c

\* str.lower()
Lower(txt) ==
  Let1(txt, LAMBDA x : [i \in 1..Len(x) |-> LowerChar(x[i])] \o <<>>)

\* str.isdigit(): non-empty and every character a digit
IsDigitStr(txt) ==
  \E x \in {txt} : Len(x) > 0 /\ \A i \in 1..Len(x) : x[i] \in IsdigitSet

\* int(txt) raises ValueError: txt is not a string of decimal digits
IntRaises(txt) ==
  \E x \in {txt} : Len(x) = 0 \/ \E i \in 1..Len(x) : x[i] \notin DigitSet

\* int(s) for a string of decimal digits
StrToInt(txt) ==
  Let1(txt, LAMBDA x :
    LET val[n \in 0..Len(x)] ==
          IF n = 0 THEN 0 ELSE 10 * val[n - 1] + DigitVal(x[n])
    IN val[Len(x)])

\* The number of decimal digits of n >= 0
NumDigits(n) == CHOOSE d \in 1..9 : n < 10 ^ d /\ (d = 1 \/ n >= 10 ^ (d - 1))

\* str(n) for n >= 0
IntToStr(n) ==
  Let1(n, LAMBDA x :
    Let1(NumDigits(x), LAMBDA d :
      [i \in 1..d |-> DigitChars[((x \div (10 ^ (d - i))) % 10) + 1]]
        \o <<>>))

\* f"{n:02d}" for n >= 0: at least two digits, zero-padded
Fmt02d(n) ==
  Let1(n, LAMBDA x : IF x < 10 THEN <<"0">> \o IntToStr(x) ELSE IntToStr(x))

\* The indices of s that hold no whitespace
InkOf(txt) == {i \in 1..Len(txt) : txt[i] \notin SpaceSet}

\* str.strip(): from the first to the last character that is no whitespace
Strip(txt) ==
  Let1(txt, LAMBDA x :
    Let1(InkOf(x), LAMBDA ink :
      IF ink = {} THEN <<>> ELSE SubSeq(x, SetMin(ink), SetMax(ink))))

\* The indices of s that " ".join(s.split()) keeps, s stripped: every
\* character but the whitespace that follows whitespace
KeptOf(txt) ==
  {i \in 1..Len(txt) : ~(txt[i] \in SpaceSet /\ i > 1 /\ txt[i - 1] \in SpaceSet)}

\* The j-th smallest element of the set K of numbers
Nth(K, j) == CHOOSE k \in K : Cardinality({m \in K : m <= k}) = j

\* " ".join(s.split()): whitespace runs collapsed to one blank, ends trimmed
SplitJoin(txt) ==
  Let1(Strip(txt), LAMBDA x :
    Let1(KeptOf(x), LAMBDA kept :
      [j \in 1..Cardinality(kept) |->
         Let1(x[Nth(kept, j)], LAMBDA c : IF c \in SpaceSet THEN " " ELSE c)]
        \o <<>>))

\* needle in hay
Contains(hay, needle) ==
  \E h \in {hay} : \E n \in {needle} :
    \E i \in 0..(Len(h) - Len(n)) : SubSeq(h, i + 1, i + Len(n)) = n

\* s.endswith(suf)
EndsWith(txt, suf) ==
  \E x \in {txt} : \E e \in {suf} :
    /\ Len(e) <= Len(x)
    /\ SubSeq(x, Len(x) - Len(e) + 1, Len(x)) = e

\* Python truthiness of an Optional[str]
Truthy(x) == \E v \in {x} : v # None /\ v # <<>>

\* ------------------------------------------------------------------------
\* Localized dates
\* ------------------------------------------------------------------------

\* MONTHS_ID: the name at position m is month number m
MONTHS_ID ==
  << <<"j", "a", "n", "u", "a", "r", "i">>,
     <<"f", "e", "b", "r", "u", "a", "r", "i">>,
     <<"m", "a", "r", "e", "t">>,
     <<"a", "p", "r", "i", "l">>,
     <<"m", "e", "i">>,
     <<"j", "u", "n", "i">>,
     <<"j", "u", "l", "i">>,
     <<"a", "g", "u", "s", "t", "u", "s">>,
     <<"s", "e", "p", "t", "e", "m", "b", "e", "r">>,
     <<"o", "k", "t", "o", "b", "e", "r">>,
     <<"n", "o", "v", "e", "m", "b", "e", "r">>,
     <<"d", "e", "s", "e", "m", "b", "e", "r">> >>

\* MONTHS_ID.get(name): the month number, or 0 for a name that is no key
MonthOf(name) ==
  Let1(name, LAMBDA x :
    IF \E m \in 1..Len(MONTHS_ID) : MONTHS_ID[m] = x
      THEN CHOOSE m \in 1..Len(MONTHS_ID) : MONTHS_ID[m] = x
      ELSE 0)

\* The length of the longest run of characters of set S in t, from index i
Run(t, i, S) ==
  Let1(i, LAMBDA b :
    CHOOSE n \in 0..(Len(t) - b + 1) :
      /\ \A k \in b..(b + n - 1) : t[k] \in S
      /\ (b + n > Len(t) \/ t[b + n] \notin S))

\* re.search returning no match object (a match never has an empty group)
NoMatch == [dd |-> <<>>, mm_name |-> <<>>, yy |-> <<>>]

\* The groups of (\d{1,2})\s+([A-Za-z]+)\s+(\d{4}) matched in t at index i
\* with a day of d digits, NoMatch if it does not match there.  Each \s+ and
\* the [A-Za-z]+ can only take its whole run, since the next piece of the
\* pattern is of another character class.
ReMatchAt(t, i, d) ==
  IF ~(i + d - 1 <= Len(t) /\ \A k \in i..(i + d - 1) : t[k] \in DigitSet)
    THEN NoMatch
  ELSE
    Let1(Run(t, i + d, SpaceSet), LAMBDA w1 :
      Let1(Run(t, i + d + w1, AlphaSet), LAMBDA a :
        Let1(Run(t, i + d + w1 + a, SpaceSet), LAMBDA w2 :
          Let1(i + d + w1 + a + w2, LAMBDA y :
            IF /\ w1 >= 1
               /\ a >= 1
               /\ w2 >= 1
               /\ y + 3 <= Len(t)
               /\ \A k \in y..(y + 3) : t[k] \in DigitSet
              THEN [dd      |-> SubSeq(t, i, i + d - 1),
                    mm_name |-> SubSeq(t, i + d + w1, i + d + w1 + a - 1),
                    yy      |-> SubSeq(t, y, y + 3)]
              ELSE NoMatch))))

\* The match at index i: the day taken greedily, two digits before one
ReMatch(t, i) ==
  Let1(ReMatchAt(t, i, 2), LAMBDA m2 :
    IF m2 # NoMatch THEN m2 ELSE ReMatchAt(t, i, 1))

\* re.search: the groups of the leftmost match, NoMatch when nothing matches
ReSearch(t) ==
  Let1({i \in 1..Len(t) : ReMatch(t, i) # NoMatch}, LAMBDA starts :
    IF starts = {} THEN NoMatch ELSE ReMatch(t, SetMin(starts)))

\* Variant: the month name is looked up as written
IsoOfMatchCaseSensitive(m) ==
  Let1(MonthOf(m.mm_name), LAMBDA mm :
    IF mm = 0 THEN None
    ELSE m.yy \o <<"-">> \o Fmt02d(mm) \o <<"-">> \o Fmt02d(StrToInt(m.dd)))

\* The ISO date of the groups of a match, None for an unknown month name
IsoOfMatch(m) ==
  Let1(MonthOf(Lower(m.mm_name)), LAMBDA mm :
    IF mm = 0 THEN None
    ELSE m.yy \o <<"-">> \o Fmt02d(mm) \o <<"-">> \o Fmt02d(StrToInt(m.dd)))

\* to_iso_from_tanggal_id: "Rabu, 1 Oktober 2025" -> "2025-10-01"
to_iso_from_tanggal_id(text) ==
  Let1(text, LAMBDA x :
    IF x = <<>> THEN None
    ELSE Let1(SplitJoin(x), LAMBDA t :
           Let1(ReSearch(t), LAMBDA m :
             IF m = NoMatch THEN None ELSE IsoOfMatch(m))))

\* ------------------------------------------------------------------------
\* Targets: a day-of-month integer or a string
\* ------------------------------------------------------------------------

\* type tells which of num (the int) and str (the string) is the target
IntTarget(n) == [type |-> "int", num |-> n, str |-> <<>>]
StrTarget(t) == [type |-> "str", num |-> 0, str |-> t]

\* len(t) == 10 and t[4] == "-" and t[7] == "-"
IsIsoShaped(t) == Len(t) = 10 /\ t[5] = "-" /\ t[8] = "-"

\* Variant: the fallback compares without lower-casing
MatchStrCaseSensitive(rec, t) ==
  IF IsIsoShaped(t) THEN rec.tanggalISO = t
  ELSE Let1(to_iso_from_tanggal_id(t), LAMBDA iso :
         IF Truthy(iso) THEN rec.tanggalISO = iso
         ELSE Contains(rec.tanggalText, t))

\* The string branch of _match_target, t the stripped target
MatchStr(rec, t) ==
  IF IsIsoShaped(t) THEN rec.tanggalISO = t
  ELSE Let1(to_iso_from_tanggal_id(t), LAMBDA iso :
         IF Truthy(iso) THEN rec.tanggalISO = iso
         ELSE Contains(Lower(rec.tanggalText), Lower(t)))

\* Variant: the day of an integer target is not zero-padded
match_target_unpadded(rec, target) ==
  \E r \in {rec} : \E g \in {target} :
    IF g.type = "int"
      THEN /\ Truthy(r.tanggalISO)
           /\ EndsWith(r.tanggalISO, <<"-">> \o IntToStr(g.num))
      ELSE \E t \in {Strip(g.str)} : MatchStr(r, t)

\* _match_target(row, target)
match_target(rec, target) ==
  \E r \in {rec} : \E g \in {target} :
    IF g.type = "int"
      THEN /\ Truthy(r.tanggalISO)
           /\ EndsWith(r.tanggalISO, <<"-">> \o Fmt02d(g.num))
      ELSE \E t \in {Strip(g.str)} : MatchStr(r, t)

\* The string branch of _derive_year_month_from_target, t the stripped target
DeriveStr(t) ==
  IF IsIsoShaped(t) THEN SubSeq(t, 1, 7)
  ELSE Let1(to_iso_from_tanggal_id(t), LAMBDA iso :
         IF Truthy(iso) THEN SubSeq(iso, 1, 7) ELSE None)

\* _derive_year_month_from_target(target): 'YYYY-MM', or None
derive_year_month_from_target(target) ==
  Let1(target, LAMBDA g :
    IF g.type = "int" THEN None
    ELSE Let1(Strip(g.str), LAMBDA t : DeriveStr(t)))

\* ------------------------------------------------------------------------
\* The row parser
\* ------------------------------------------------------------------------

\* Optional[int]: NoInt is None, SomeInt(n) the integer n
NoInt == <<>>
SomeInt(n) == <<n>>

\* One <tr> of the response as BeautifulSoup presents it to the parser:
\*   ncells        len(tr.find_all("td"))
\*   tanggal_text  tds[0].get_text(strip=True, separator=" ")
\*   status_text   the text of the status element, else of the whole cell
\*   hide          the text of the ".hide" element, None without the element
RawRow(n, tanggal, status, hide) ==
  [ncells |-> n, tanggal_text |-> tanggal, status_text |-> status, hide |-> hide]

\* The lower-cased status text says full: "penuh" or "kuota penuh"
Penuh == <<"p", "e", "n", "u", "h">>
KuotaPenuh == <<"k", "u", "o", "t", "a", " ", "p", "e", "n", "u", "h">>

\* The words of the status text that say available
AvailableWords ==
  { <<"t", "e", "r", "s", "e", "d", "i", "a">>,
    <<"a", "v", "a", "i", "l", "a", "b", "l", "e">>,
    <<"t", "e", "r", "s", "i", "s", "a">> }

\* int(hide_val_raw) raises: the .hide text passes isdigit() and is no
\* decimal number
SisaRaises(hide) == hide # None /\ IsDigitStr(hide) /\ IntRaises(hide)

\* sisa: int(hide_val_raw) if the .hide element holds digits only, else None
SisaOf(hide) ==
  IF hide # None /\ IsDigitStr(hide) THEN SomeInt(StrToInt(hide)) ELSE NoInt

\* Variant: a quota of zero does not make the row full
ClassifyNoZero(st_low, hide, sisa) ==
  LET is_full_text   == Contains(st_low, Penuh) \/ Contains(st_low, KuotaPenuh)
      hide_is_hidden == hide # None /\ ~IsDigitStr(hide)
      full_by_hidden == Contains(st_low, KuotaPenuh) /\ hide_is_hidden
      is_full        == is_full_text \/ full_by_hidden
      available      == /\ ~is_full
                        /\ \/ \E k \in AvailableWords : Contains(st_low, k)
                           \/ (sisa # NoInt /\ sisa[1] > 0)
  IN [isFull |-> is_full, available |-> available]

\* Variant: a positive quota makes the row available even when it is full
ClassifyQuotaWins(st_low, hide, sisa) ==
  LET is_full_text   == Contains(st_low, Penuh) \/ Contains(st_low, KuotaPenuh)
      hide_is_hidden == hide # None /\ ~IsDigitStr(hide)
      full_by_hidden == Contains(st_low, KuotaPenuh) /\ hide_is_hidden
      is_full_zero   == sisa = SomeInt(0)
      is_full        == is_full_text \/ full_by_hidden \/ is_full_zero
      available      == \/ (~is_full /\ \E k \in AvailableWords : Contains(st_low, k))
                        \/ (sisa # NoInt /\ sisa[1] > 0)
  IN [isFull |-> is_full, available |-> available]

\* Variant: a hidden quota alone makes the row full
ClassifyHiddenAlone(st_low, hide, sisa) ==
  LET is_full_text   == Contains(st_low, Penuh) \/ Contains(st_low, KuotaPenuh)
      hide_is_hidden == hide # None /\ ~IsDigitStr(hide)
      full_by_hidden == hide_is_hidden
      is_full_zero   == sisa = SomeInt(0)
      is_full        == is_full_text \/ full_by_hidden \/ is_full_zero
      available      == /\ ~is_full
                        /\ \/ \E k \in AvailableWords : Contains(st_low, k)
                           \/ (sisa # NoInt /\ sisa[1] > 0)
  IN [isFull |-> is_full, available |-> available]

\* isFull and available of a row, from its lower-cased status text, its
\* .hide text (None without the element) and its sisa
Classify(st_low, hide, sisa) ==
  LET is_full_text   == Contains(st_low, Penuh) \/ Contains(st_low, KuotaPenuh)
      hide_is_hidden == hide # None /\ ~IsDigitStr(hide)
      full_by_hidden == Contains(st_low, KuotaPenuh) /\ hide_is_hidden
      is_full_zero   == sisa = SomeInt(0)
      is_full        == is_full_text \/ full_by_hidden \/ is_full_zero
      available      == /\ ~is_full
                        /\ \/ \E k \in AvailableWords : Contains(st_low, k)
                           \/ (sisa # NoInt /\ sisa[1] > 0)
  IN [isFull |-> is_full, available |-> available]

\* The record parse_kapasitas_rows appends for one <tr> with two cells or more
parse_row(tr) ==
  Let1(SisaOf(tr.hide), LAMBDA sisa :
    Let1(Classify(Lower(tr.status_text), tr.hide, sisa), LAMBDA c :
      [tanggalText |-> tr.tanggal_text,
       tanggalISO  |-> to_iso_from_tanggal_id(tr.tanggal_text),
       statusText  |-> tr.status_text,
       sisa        |-> sisa,
       isFull      |-> c.isFull,
       available   |-> c.available]))

\* if len(tds) < 2: continue
HasCells(tr) == tr.ncells >= 2

\* parse_kapasitas_rows(html): one record per <tr> of two cells or more, in
\* document order
parse_kapasitas_rows(trs) ==
  Let1(SelectSeq(trs, HasCells), LAMBDA kept :
    [i \in 1..Len(kept) |-> parse_row(kept[i])] \o <<>>)

\* parse_kapasitas_rows(html) raises ValueError instead of returning: the
\* int() of some row of two cells or more raises
parse_raises(trs) ==
  \E i \in 1..Len(trs) : HasCells(trs[i]) /\ SisaRaises(trs[i].hide)

\* Optional[row]: NoRow is None, <<r>> the record r
NoRow == <<>>

\* Variant: the last matching record is taken
last_match(rows, target) ==
  Let1({i \in 1..Len(rows) : match_target(rows[i], target)}, LAMBDA hits :
    IF hits = {} THEN NoRow ELSE <<rows[SetMax(hits)]>>)

\* next((r for r in rows if _match_target(r, target)), None)
first_match(rows, target) ==
  Let1({i \in 1..Len(rows) : match_target(rows[i], target)}, LAMBDA hits :
    IF hits = {} THEN NoRow ELSE <<rows[SetMin(hits)]>>)

\* What _once returns for a response body: the first record matching target
once(html, target) ==
  Let1(parse_kapasitas_rows(html), LAMBDA rows :
    Let1(target, LAMBDA g : first_match(rows, g)))

\* row and row.get("available")
RowAvailable(rec) == rec # NoRow /\ rec[1].available

\* ------------------------------------------------------------------------
\* Inputs: response bodies, command lines
\* ------------------------------------------------------------------------

TrNoCells  == RawRow(1, <<"O", "k", "t", "o", "b", "e", "r", " ", "2", "0", "2", "5">>, <<>>, None)
Tr17       == RawRow(2, <<"J", "u", "m", "a", "t", ",", " ", "1", "7", " ", "O", "k", "t", "o", "b", "e", "r", " ", "2", "0", "2", "5">>,
                        <<"T", "e", "r", "s", "e", "d", "i", "a">>, <<"3">>)
Tr18Penuh  == RawRow(2, <<"S", "a", "b", "t", "u", ",", " ", "1", "8", " ", "O", "k", "t", "o", "b", "e", "r", " ", "2", "0", "2", "5">>,
                        <<"K", "u", "o", "t", "a", " ", "P", "e", "n", "u", "h">>, <<>>)
Tr18Avail  == RawRow(2, <<"S", "a", "b", "t", "u", ",", " ", "1", "8", " ", "O", "k", "t", "o", "b", "e", "r", " ", "2", "0", "2", "5">>,
                        <<"T", "e", "r", "s", "e", "d", "i", "a">>, <<"5">>)

\* The response bodies the endpoint answers with: the target day not yet
\* listed, listed and full, listed and available
Pages ==
  [NotListed |-> <<TrNoCells, Tr17>>,
   Full      |-> <<Tr17, Tr18Penuh>>,
   Available |-> <<Tr17, Tr18Avail>>]

PageNames == DOMAIN Pages

\* A response: a page, or "error" when get_kapasitas or the parser raises
Responses == PageNames \cup {"error"}

\* Bounds of the model
MaxRequests == 101
MaxFailures == 6
FailWindow == 1
MaxAttempts == 4

\* Program constants
RefreshEvery == 100
BackoffCap == 60
StreakLimit == 3
DefaultInterval == 20

\* --interval / interval_sec
Intervals == {0, DefaultInterval}

\* Command lines: --target and --year-month (None when not supplied; <<>>
\* when supplied empty)
CliTargets ==
  [target : {<<"1", "8">>, <<"2", "0", "2", "5", "-", "1", "0", "-", "1", "8">>,
             <<"1", "8", " ", "O", "k", "t", "o", "b", "e", "r", " ", "2", "0", "2", "5">>, <<"O", "k", "t", "o", "b", "e", "r">>},
   year_month : {None}]
  \cup
  [target : {<<"1", "8">>, <<"O", "k", "t", "o", "b", "e", "r">>},
   year_month : {<<"2", "0", "2", "5", "-", "1", "0">>}]
  \cup
  [target : {<<"1", "8">>}, year_month : {<<>>}]

\* The command lines run with --loop
LoopTargets ==
  {[target |-> <<"2", "0", "2", "5", "-", "1", "0", "-", "1", "8">>, year_month |-> None]}

CliArgs ==
  { [target |-> c.target, year_month |-> c.year_month, loop |-> FALSE,
     stop_when_available |-> FALSE, interval |-> DefaultInterval] :
      c \in CliTargets }
  \cup
  { [target |-> c.target, year_month |-> c.year_month, loop |-> TRUE,
     stop_when_available |-> w, interval |-> i] :
      c \in LoopTargets, w \in BOOLEAN, i \in Intervals }

\* Arguments of the library calls wait_until_tanggal_ada / _tersedia
WaitArgs ==
  [target : {IntTarget(18), StrTarget(<<"2", "0", "2", "5", "-", "1", "0", "-", "1", "8">>)},
   year_month : {<<"2", "0", "2", "5", "-", "1", "0">>},
   interval_sec : Intervals,
   max_attempts : 0..MaxAttempts]

\* ------------------------------------------------------------------------
\* State
\* ------------------------------------------------------------------------

VARIABLES
  pc,            \* position: "idle", "once", "loop_once", "loop_refresh",
                 \*   "loop_sleep", "loop_backoff", "loop_err_refresh",
                 \*   "wait_once", "wait_sleep", "done"
  fn,            \* the polling function running, "" before the call
  argv,          \* <<a>> for a CLI run with command line a, <<>> for a
                 \*   library call
  args,          \* the arguments of the polling function
  s,             \* the session handle the function holds (0: none)
  built,         \* number of sessions build_session has created
  closed,        \* handles on which close() has been called
  err_count,     \* get_kapasitas_by_date: consecutive failed cycles
  requests_made, \* get_kapasitas_by_date: successful cycles
  attempt,       \* the loop counter
  row,           \* the last value _once returned
  outcome,       \* "running", "returned", "raised"
  retval,        \* the value returned
  exc,           \* the exception raised: "", "Exception", "KeyboardInterrupt",
                 \*   "SystemExit", "ValueError"
  exit_status,   \* CLI: <<>> while running, <<n>> once exited with status n
  fetches,       \* observed: POST requests issued
  fetch_session, \* observed: the handle of the last request (0: none)
  resp,          \* observed: the last response, "" before the first
  sleeps,        \* observed: calls of time.sleep that returned
  last_sleep,    \* observed: the delay of the last sleep
  streak,        \* observed: failed cycles since the last successful one
  refreshes,     \* observed: session rebuilds, by cause
  periodic_handle, \* observed: the handle the last periodic rebuild created
  interrupted,   \* observed: where Ctrl+C arrived, "" if it did not
  max_open,      \* observed: the most sessions that were open at one time
  call,          \* a call of one of the pure functions: its name and input
  result,        \* what that call produced, Pending before it has run
  script,        \* the responses a scripted run is answered with, in order
  ran            \* the scripted runs that have ended: cycles and return value

vars ==
  <<pc, fn, argv, args, s, built, closed, err_count, requests_made, attempt,
    row, outcome, retval, exc, exit_status, fetches, fetch_session, resp,
    sleeps, last_sleep, streak, refreshes, periodic_handle, interrupted,
    max_open, call, result, script, ran>>

\* The variables the polling functions leave alone
aux == <<call, result, script, ran>>

NoArgs ==
  [target |-> IntTarget(0), year_month |-> None, loop_forever |-> FALSE,
   interval_sec |-> 0, stop_when_available |-> FALSE, max_attempts |-> 0]

\* No call of a pure function; the result of a call that has not run
NoCall == [op |-> ""]
Pending == [done |-> FALSE]

\* The polling functions before any call
PollInit ==
  /\ pc = "idle"
  /\ fn = ""
  /\ argv = <<>>
  /\ args = NoArgs
  /\ s = 0
  /\ built = 0
  /\ closed = {}
  /\ err_count = 0
  /\ requests_made = 0
  /\ attempt = 0
  /\ row = NoRow
  /\ outcome = "running"
  /\ retval = NoRow
  /\ exc = ""
  /\ exit_status = <<>>
  /\ fetches = 0
  /\ fetch_session = 0
  /\ resp = ""
  /\ sleeps = 0
  /\ last_sleep = 0
  /\ streak = 0
  /\ refreshes = [periodic |-> 0, streak |-> 0]
  /\ periodic_handle = 0
  /\ interrupted = ""
  /\ max_open = 0

Init ==
  /\ PollInit
  /\ call = NoCall
  /\ result = Pending
  /\ script = <<>>
  /\ ran = <<>>

\* ------------------------------------------------------------------------
\* Helpers of the polling functions
\* ------------------------------------------------------------------------

\* The target the CLI passes on: an int when --target is all digits (int()
\* raises on digits that are not decimal: see Main)
target_val(t) ==
  IF IsDigitStr(t) THEN IntTarget(StrToInt(t)) ELSE StrTarget(t)

\* Variant: falls back to the default year_month of the polling functions
ResolveYearMonthDefault(a) ==
  IF Truthy(a.year_month) THEN a.year_month
  ELSE <<"2", "0", "2", "5", "-", "1", "0">>

\* ym = args.year_month or _derive_year_month_from_target(target_val)
ResolveYearMonth(a) ==
  IF Truthy(a.year_month) THEN a.year_month
  ELSE derive_year_month_from_target(target_val(a.target))

\* The targets the polling functions are called with
PollTargets ==
  {target_val(c.target) : c \in CliTargets} \cup {w.target : w \in WaitArgs}

\* _once for every response body and target of the model, tabulated
OnceTable ==
  {[page |-> r, target |-> t, row |-> once(Pages[r], t)] :
     r \in PageNames, t \in PollTargets}

\* What _once returns for response body r and target t
Found(r, t) ==
  (CHOOSE e \in OnceTable : e.page = r /\ e.target = t).row

\* The session _once posts on: the closure reads s of the enclosing call
\* when it runs
OnceSession == s

\* The environment of the model lets a request fail only near a refresh
\* point: when the count of successful cycles is within FailWindow of a
\* multiple of 100 (the cycles in between are all alike); a scripted run
\* fails wherever its script says
MayFail(n) ==
  \/ n % RefreshEvery <= FailWindow
  \/ n % RefreshEvery >= RefreshEvery - FailWindow
  \/ fetches < Len(script)

\* Variant: the refresh comes one cycle early
RefreshDueEarly(n) == n % RefreshEvery = RefreshEvery - 1

\* requests_made % 100 == 0
RefreshDue(n) == n % RefreshEvery = 0

\* Variant: the refresh comes only when the counter reaches the limit
StreakRefreshOnce(k) == k = StreakLimit

\* Variant: the refresh comes one failure late
StreakRefreshLate(k) == k > StreakLimit

\* err_count >= 3
StreakRefreshDue(k) == k >= StreakLimit

\* Variant: the penalty is not capped
BackoffUncapped(interval_sec, k) == interval_sec + 2 ^ k

\* wait = interval_sec + min(60, 2 ** err_count)
BackoffWait(interval_sec, k) == interval_sec + Min(BackoffCap, 2 ^ k)

\* Variant: the flag is not consulted
StopNowAlways(r, stop_when_available) == r # NoRow /\ r[1].available

\* row and stop_when_available and row.get("available")
StopNow(r, stop_when_available) ==
  r # NoRow /\ stop_when_available /\ r[1].available

\* Variant: wait_until_tanggal_tersedia stops as soon as the date is listed
WaitStopWhenListed(f, r) == r # NoRow

\* The stop tests of wait_until_tanggal_ada (if row) and of
\* wait_until_tanggal_tersedia (if row and row.get("available"))
WaitStop(f, r) ==
  IF f = "wait_until_tanggal_ada" THEN r # NoRow ELSE RowAvailable(r)

\* The status a CLI process ends with when exception e is not caught
ExitStatusOf(e) == IF e = "KeyboardInterrupt" THEN 130 ELSE 1

\* return v
Return(v) ==
  /\ pc' = "done"
  /\ outcome' = "returned"
  /\ retval' = v
  /\ exc' = ""
  /\ exit_status' = IF argv # <<>> THEN <<0>> ELSE <<>>

\* raise e, caught by nothing
Raise(e) ==
  /\ pc' = "done"
  /\ outcome' = "raised"
  /\ retval' = NoRow
  /\ exc' = e
  /\ exit_status' = IF argv # <<>> THEN <<ExitStatusOf(e)>> ELSE <<>>

\* The call goes on
Going(p) ==
  /\ pc' = p
  /\ UNCHANGED <<outcome, retval, exc, exit_status>>

\* The number of sessions built and not closed
OpenCount(b, c) == Cardinality((1..b) \ c)

\* build_session() at the start of a call
NewSession ==
  /\ built' = built + 1
  /\ s' = built + 1
  /\ max_open' = Max(max_open, OpenCount(built, closed) + 1)

\* Variant: the new session is built while the old one is still open
RebuildBeforeClose(cause) ==
  /\ closed' = closed \cup {s}
  /\ built' = built + 1
  /\ s' = built + 1
  /\ refreshes' = [refreshes EXCEPT ![cause] = @ + 1]
  /\ periodic_handle' = IF cause = "periodic" THEN built + 1 ELSE periodic_handle
  /\ max_open' = Max(max_open, OpenCount(built, closed) + 1)

\* try: s.close() finally: s = build_session(force_ipv4=True): the old
\* session is closed, then the new one is built
Rebuild(cause) ==
  /\ closed' = closed \cup {s}
  /\ built' = built + 1
  /\ s' = built + 1
  /\ refreshes' = [refreshes EXCEPT ![cause] = @ + 1]
  /\ periodic_handle' = IF cause = "periodic" THEN built + 1 ELSE periodic_handle
  /\ max_open' = Max(max_open, OpenCount(built, closed \cup {s}) + 1)

\* One request on session h answered by r
Fetched(h, r) ==
  /\ fetches' = fetches + 1
  /\ fetch_session' = h
  /\ resp' = r

LoopPcs ==
  {"loop_once", "loop_refresh", "loop_sleep", "loop_backoff", "loop_err_refresh"}

\* ------------------------------------------------------------------------
\* The command-line entry point
\* ------------------------------------------------------------------------

\* __main__: SystemExit when no year-month is known, else build the session
\* and call get_kapasitas_by_date
Main(a) ==
  /\ pc = "idle"
  /\ argv' = <<a>>
  /\ LET ym == ResolveYearMonth(a) IN
     IF IsDigitStr(a.target) /\ IntRaises(a.target)
       THEN /\ pc' = "done"
            /\ outcome' = "raised"
            /\ exc' = "ValueError"
            /\ exit_status' = <<1>>
            /\ UNCHANGED <<fn, args, s, built, retval, max_open>>
     ELSE IF ym = None
       THEN /\ pc' = "done"
            /\ outcome' = "raised"
            /\ exc' = "SystemExit"
            /\ exit_status' = <<1>>
            /\ UNCHANGED <<fn, args, s, built, retval, max_open>>
       ELSE /\ NewSession
            /\ fn' = "get_kapasitas_by_date"
            /\ args' = [target |-> target_val(a.target), year_month |-> ym,
                        loop_forever |-> a.loop, interval_sec |-> a.interval,
                        stop_when_available |-> a.stop_when_available,
                        max_attempts |-> 0]
            /\ pc' = IF a.loop THEN "loop_once" ELSE "once"
            /\ UNCHANGED <<outcome, exc, exit_status, retval>>
  /\ UNCHANGED <<closed, err_count, requests_made, attempt, row, fetches,
                 fetch_session, resp, sleeps, last_sleep, streak, refreshes,
                 periodic_handle, interrupted>>
  /\ UNCHANGED aux

\* ------------------------------------------------------------------------
\* get_kapasitas_by_date
\* ------------------------------------------------------------------------

\* Variant: the single check swallows the failure and returns None
SingleCheckSwallows(r) ==
  /\ pc = "once"
  /\ Fetched(OnceSession, r)
  /\ IF r = "error"
       THEN /\ Return(NoRow)
            /\ streak' = streak + 1
            /\ UNCHANGED row
       ELSE /\ row' = Found(r, args.target)
            /\ streak' = 0
            /\ Return(row')
  /\ UNCHANGED <<fn, argv, args, s, built, closed, err_count, requests_made,
                 attempt, sleeps, last_sleep, refreshes, periodic_handle,
                 interrupted>>
  /\ UNCHANGED <<max_open, aux>>

\* loop_forever=False: return _once()
SingleCheck(r) ==
  /\ pc = "once"
  /\ Fetched(OnceSession, r)
  /\ IF r = "error"
       THEN /\ Raise("Exception")
            /\ streak' = streak + 1
            /\ UNCHANGED row
       ELSE /\ row' = Found(r, args.target)
            /\ streak' = 0
            /\ Return(row')
  /\ UNCHANGED <<fn, argv, args, s, built, closed, err_count, requests_made,
                 attempt, sleeps, last_sleep, refreshes, periodic_handle,
                 interrupted>>
  /\ UNCHANGED <<max_open, aux>>

\* The end of a successful cycle: return the row or go to the normal sleep
StopOrSleep(r) ==
  IF StopNow(r, args.stop_when_available) THEN Return(r) ELSE Going("loop_sleep")

\* Variant: a successful cycle leaves err_count as it is
LoopCycleOkNoReset(r) ==
  /\ pc = "loop_once"
  /\ r \in PageNames
  /\ requests_made < MaxRequests
  /\ attempt' = attempt + 1
  /\ Fetched(OnceSession, r)
  /\ row' = Found(r, args.target)
  /\ requests_made' = requests_made + 1
  /\ streak' = 0
  /\ IF RefreshDue(requests_made')
       THEN Going("loop_refresh")
       ELSE StopOrSleep(row')
  /\ UNCHANGED <<fn, argv, args, s, built, closed, sleeps, last_sleep,
                 refreshes, periodic_handle, interrupted, err_count>>
  /\ UNCHANGED <<max_open, aux>>

\* A cycle of the loop in which _once returns
LoopCycleOk(r) ==
  /\ pc = "loop_once"
  /\ r \in PageNames
  /\ requests_made < MaxRequests
  /\ attempt' = attempt + 1
  /\ Fetched(OnceSession, r)
  /\ row' = Found(r, args.target)
  /\ requests_made' = requests_made + 1
  /\ err_count' = 0
  /\ streak' = 0
  /\ IF RefreshDue(requests_made')
       THEN Going("loop_refresh")
       ELSE StopOrSleep(row')
  /\ UNCHANGED <<fn, argv, args, s, built, closed, sleeps, last_sleep,
                 refreshes, periodic_handle, interrupted>>
  /\ UNCHANGED <<max_open, aux>>

\* The session refresh after every 100th successful cycle
LoopRefresh ==
  /\ pc = "loop_refresh"
  /\ Rebuild("periodic")
  /\ StopOrSleep(row)
  /\ UNCHANGED <<fn, argv, args, err_count, requests_made, attempt, row,
                 fetches, fetch_session, resp, sleeps, last_sleep, streak,
                 interrupted>>
  /\ UNCHANGED aux

\* time.sleep(interval_sec) at the end of a successful cycle
LoopSleep ==
  /\ pc = "loop_sleep"
  /\ sleeps' = sleeps + 1
  /\ last_sleep' = args.interval_sec
  /\ Going("loop_once")
  /\ UNCHANGED <<fn, argv, args, s, built, closed, err_count, requests_made,
                 attempt, row, fetches, fetch_session, resp, streak, refreshes,
                 periodic_handle, interrupted>>
  /\ UNCHANGED <<max_open, aux>>

\* Variant: the failure of a cycle is not caught
LoopCycleFailRaises ==
  /\ pc = "loop_once"
  /\ fetches - requests_made < MaxFailures
  /\ MayFail(requests_made)
  /\ attempt' = attempt + 1
  /\ Fetched(OnceSession, "error")
  /\ streak' = streak + 1
  /\ Raise("Exception")
  /\ UNCHANGED <<fn, argv, args, s, built, closed, requests_made, row, sleeps,
                 last_sleep, refreshes, periodic_handle, interrupted,
                 err_count>>
  /\ UNCHANGED <<max_open, aux>>

\* A cycle of the loop in which _once raises: except Exception
LoopCycleFail ==
  /\ pc = "loop_once"
  /\ fetches - requests_made < MaxFailures
  /\ MayFail(requests_made)
  /\ attempt' = attempt + 1
  /\ Fetched(OnceSession, "error")
  /\ err_count' = err_count + 1
  /\ streak' = streak + 1
  /\ Going("loop_backoff")
  /\ UNCHANGED <<fn, argv, args, s, built, closed, requests_made, row, sleeps,
                 last_sleep, refreshes, periodic_handle, interrupted>>
  /\ UNCHANGED <<max_open, aux>>

\* time.sleep(wait) in the except branch
LoopBackoff ==
  /\ pc = "loop_backoff"
  /\ sleeps' = sleeps + 1
  /\ last_sleep' = BackoffWait(args.interval_sec, err_count)
  /\ Going(IF StreakRefreshDue(err_count) THEN "loop_err_refresh" ELSE "loop_once")
  /\ UNCHANGED <<fn, argv, args, s, built, closed, err_count, requests_made,
                 attempt, row, fetches, fetch_session, resp, streak, refreshes,
                 periodic_handle, interrupted>>
  /\ UNCHANGED <<max_open, aux>>

\* The session refresh after an error streak
LoopErrRefresh ==
  /\ pc = "loop_err_refresh"
  /\ Rebuild("streak")
  /\ Going("loop_once")
  /\ UNCHANGED <<fn, argv, args, err_count, requests_made, attempt, row,
                 fetches, fetch_session, resp, sleeps, last_sleep, streak,
                 interrupted>>
  /\ UNCHANGED aux

\* Where Ctrl+C can arrive at position p of the loop
InterruptPhases(p) ==
  IF p = "loop_once" THEN {"in_fetch"}
  ELSE IF p \in {"loop_refresh", "loop_err_refresh"}
    THEN {"before", "in_close", "in_build"}
  ELSE {"in_sleep"}

\* Variant: the outer try does not catch the interrupt
LoopInterruptEscapes(phase) ==
  /\ pc \in LoopPcs
  /\ phase \in InterruptPhases(pc)
  /\ interrupted' = pc
  /\ Raise("KeyboardInterrupt")
  /\ IF phase = "in_fetch"
       THEN /\ attempt' = attempt + 1
            /\ Fetched(OnceSession, "")
       ELSE UNCHANGED <<attempt, fetches, fetch_session, resp>>
  /\ IF phase = "in_close"
       THEN /\ closed' = closed \cup {s}
            /\ built' = built + 1
            /\ s' = built + 1
            /\ max_open' = Max(max_open, OpenCount(built, closed \cup {s}) + 1)
       ELSE IF phase = "in_build"
         THEN /\ closed' = closed \cup {s}
              /\ UNCHANGED <<built, s, max_open>>
         ELSE UNCHANGED <<closed, built, s, max_open>>
  /\ UNCHANGED <<fn, argv, args, err_count, requests_made, row, sleeps,
                 last_sleep, streak, refreshes, periodic_handle>>
  /\ UNCHANGED aux

\* KeyboardInterrupt inside the loop: re-raised by the inner try, caught by
\* the outer one, which returns None.  Interrupting s.close() still runs the
\* finally clause that builds a session.
LoopInterrupt(phase) ==
  /\ pc \in LoopPcs
  /\ phase \in InterruptPhases(pc)
  /\ interrupted' = pc
  /\ Return(NoRow)
  /\ IF phase = "in_fetch"
       THEN /\ attempt' = attempt + 1
            /\ Fetched(OnceSession, "")
       ELSE UNCHANGED <<attempt, fetches, fetch_session, resp>>
  /\ IF phase = "in_close"
       THEN /\ closed' = closed \cup {s}
            /\ built' = built + 1
            /\ s' = built + 1
            /\ max_open' = Max(max_open, OpenCount(built, closed \cup {s}) + 1)
       ELSE IF phase = "in_build"
         THEN /\ closed' = closed \cup {s}
              /\ UNCHANGED <<built, s, max_open>>
         ELSE UNCHANGED <<closed, built, s, max_open>>
  /\ UNCHANGED <<fn, argv, args, err_count, requests_made, row, sleeps,
                 last_sleep, streak, refreshes, periodic_handle>>
  /\ UNCHANGED aux

\* ------------------------------------------------------------------------
\* wait_until_tanggal_ada, wait_until_tanggal_tersedia
\* ------------------------------------------------------------------------

\* The call: build the session and enter for attempt in range(1, max + 1)
CallWait(f, a) ==
  /\ pc = "idle"
  /\ fn' = f
  /\ args' = [target |-> a.target, year_month |-> a.year_month,
              loop_forever |-> FALSE, interval_sec |-> a.interval_sec,
              stop_when_available |-> FALSE, max_attempts |-> a.max_attempts]
  /\ NewSession
  /\ IF a.max_attempts >= 1
       THEN attempt' = 1 /\ Going("wait_once")
       ELSE attempt' = attempt /\ Return(NoRow)
  /\ UNCHANGED <<argv, closed, err_count, requests_made, row, fetches,
                 fetch_session, resp, sleeps, last_sleep, streak, refreshes,
                 periodic_handle, interrupted>>
  /\ UNCHANGED aux

wait_until_tanggal_ada(a) == CallWait("wait_until_tanggal_ada", a)

wait_until_tanggal_tersedia(a) == CallWait("wait_until_tanggal_tersedia", a)

\* One pass of the try block: a single check on the held session, the stop
\* test on its row; except Exception only prints
WaitCycle(r) ==
  /\ pc = "wait_once"
  /\ Fetched(s, r)
  /\ IF r = "error"
       THEN /\ streak' = streak + 1
            /\ UNCHANGED row
            /\ Going("wait_sleep")
       ELSE /\ row' = Found(r, args.target)
            /\ streak' = 0
            /\ IF WaitStop(fn, row') THEN Return(row') ELSE Going("wait_sleep")
  /\ UNCHANGED <<fn, argv, args, s, built, closed, err_count, requests_made,
                 attempt, sleeps, last_sleep, refreshes, periodic_handle,
                 interrupted>>
  /\ UNCHANGED <<max_open, aux>>

\* Variant: the range runs one attempt too far
WaitSleepOneMore ==
  /\ pc = "wait_sleep"
  /\ sleeps' = sleeps + 1
  /\ last_sleep' = args.interval_sec
  /\ IF attempt <= args.max_attempts
       THEN attempt' = attempt + 1 /\ Going("wait_once")
       ELSE attempt' = attempt /\ Return(NoRow)
  /\ UNCHANGED <<fn, argv, args, s, built, closed, err_count, requests_made,
                 row, fetches, fetch_session, resp, streak, refreshes,
                 periodic_handle, interrupted>>
  /\ UNCHANGED <<max_open, aux>>

\* time.sleep(interval_sec), then the next attempt or, after the last one,
\* return None
WaitSleep ==
  /\ pc = "wait_sleep"
  /\ sleeps' = sleeps + 1
  /\ last_sleep' = args.interval_sec
  /\ IF attempt < args.max_attempts
       THEN attempt' = attempt + 1 /\ Going("wait_once")
       ELSE attempt' = attempt /\ Return(NoRow)
  /\ UNCHANGED <<fn, argv, args, s, built, closed, err_count, requests_made,
                 row, fetches, fetch_session, resp, streak, refreshes,
                 periodic_handle, interrupted>>
  /\ UNCHANGED <<max_open, aux>>

\* KeyboardInterrupt outside the indefinite loop: nothing catches it
Interrupt ==
  /\ pc \in {"once", "wait_once", "wait_sleep"}
  /\ interrupted' = pc
  /\ Raise("KeyboardInterrupt")
  /\ UNCHANGED <<fn, argv, args, s, built, closed, err_count, requests_made,
                 attempt, row, fetches, fetch_session, resp, sleeps,
                 last_sleep, streak, refreshes, periodic_handle>>
  /\ UNCHANGED <<max_open, aux>>

\* ------------------------------------------------------------------------
\* Specification
\* ------------------------------------------------------------------------

Next ==
  \/ \E a \in CliArgs : Main(a)
  \/ \E r \in Responses : SingleCheck(r)
  \/ \E r \in Responses : LoopCycleOk(r)
  \/ LoopRefresh
  \/ LoopSleep
  \/ LoopCycleFail
  \/ LoopBackoff
  \/ LoopErrRefresh
  \/ \E phase \in {"before", "in_fetch", "in_close", "in_build", "in_sleep"} :
       LoopInterrupt(phase)
  \/ \E a \in WaitArgs : wait_until_tanggal_ada(a)
  \/ \E a \in WaitArgs : wait_until_tanggal_tersedia(a)
  \/ \E r \in Responses : WaitCycle(r)
  \/ WaitSleep
  \/ Interrupt

Spec == Init /\ [][Next]_vars

\* ------------------------------------------------------------------------
\* Calls of the pure functions on inputs drawn from bounded sets
\* ------------------------------------------------------------------------

\* Status texts of a row
StatusTexts ==
  {
    <<"K", "u", "o", "t", "a", " ", "P", "e", "n", "u", "h">>,
    <<"P", "E", "N", "U", "H">>,
    <<"T", "e", "r", "s", "e", "d", "i", "a">>,
    <<"T", "e", "r", "s", "i", "s", "a", " ", "1", "2">>,
    <<"A", "v", "a", "i", "l", "a", "b", "l", "e">>,
    <<"T", "u", "t", "u", "p">>, <<>>,
    <<"K", "u", "o", "t", "a", " ", "P", "e", "n", "u", "h", ",", " ", "t", "e", "r", "s", "e", "d", "i", "a">> }

\* Texts of the .hide element: absent (None), empty, numbers, not a number,
\* and a digit that is not decimal
HideTexts ==
  {
    None, <<>>, <<"5">>, <<"0">>, <<"0", "0">>, <<"1", "2">>, <<"x">>,
    <<Sup2>> }

\* The rows of two cells with every status text and every .hide text
ClassRows ==
  {RawRow(2, <<"R", "a", "b", "u", ",", " ", "1", " ", "O", "k", "t", "o", "b", "e", "r", " ", "2", "0", "2", "5">>, st, h) :
     st \in StatusTexts, h \in HideTexts}

\* Rows of differing shape: too few cells, no date, unparsable date and
\* missing quota, a quota on which int() raises, two well-formed rows
TrEmpty == RawRow(0, <<>>, <<>>, None)
TrNoDate == RawRow(3, <<"O", "k", "t", "o", "b", "e", "r", " ", "2", "0", "2", "5">>, <<"T", "u", "t", "u", "p">>, None)
TrSup2 == RawRow(2, <<"M", "i", "n", "g", "g", "u", ",", " ", "1", "9", " ", "O", "k", "t", "o", "b", "e", "r", " ", "2", "0", "2", "5">>, <<"T", "e", "r", "s", "e", "d", "i", "a">>, <<Sup2>>)

ShapeRows == {TrEmpty, TrNoCells, TrNoDate, TrSup2, Tr17, Tr18Avail}

\* The most <tr> elements of a markup made of ShapeRows
MaxRows == 2

\* The markups parse_kapasitas_rows is called on
Markups ==
  {<<r>> : r \in ClassRows} \cup UNION {[1..k -> ShapeRows] : k \in 0..MaxRows}

ParseCalls == {[op |-> "parse_kapasitas_rows", html |-> h] : h \in Markups}

\* The month names as the site writes them, January first
MonthNames ==
  <<<<"J", "a", "n", "u", "a", "r", "i">>,
    <<"F", "e", "b", "r", "u", "a", "r", "i">>,
    <<"M", "a", "r", "e", "t">>,
    <<"A", "p", "r", "i", "l">>,
    <<"M", "e", "i">>,
    <<"J", "u", "n", "i">>,
    <<"J", "u", "l", "i">>,
    <<"A", "g", "u", "s", "t", "u", "s">>,
    <<"S", "e", "p", "t", "e", "m", "b", "e", "r">>,
    <<"O", "k", "t", "o", "b", "e", "r">>,
    <<"N", "o", "v", "e", "m", "b", "e", "r">>,
    <<"D", "e", "s", "e", "m", "b", "e", "r">>>>

\* A number below 100 in two digits, a number below 10000 in four, a day as
\* the site writes it
TwoDigits(n) == <<DigitChars[(n \div 10) + 1], DigitChars[(n % 10) + 1]>>
FourDigits(n) == TwoDigits(n \div 100) \o TwoDigits(n % 100)
DayText(n) == IF n < 10 THEN <<DigitChars[n + 1]>> ELSE TwoDigits(n)

\* A date d = [day, month, year] as YYYY-MM-DD and as "<day> <MonthName>
\* <year>"
IsoOf(d) ==
  FourDigits(d.year) \o <<"-">> \o TwoDigits(d.month) \o <<"-">> \o TwoDigits(d.day)
LocalizedOf(d) ==
  DayText(d.day) \o <<" ">> \o MonthNames[d.month] \o <<" ">> \o FourDigits(d.year)

\* A record as parse_kapasitas_rows builds it, with date text and ISO date
DateRecord(text, iso) ==
  [tanggalText |-> text, tanggalISO |-> iso, statusText |-> <<"T", "e", "r", "s", "e", "d", "i", "a">>,
   sisa |-> SomeInt(5), isFull |-> FALSE, available |-> TRUE]

\* The dates of the records and of the targets formed from a date
MatchDates ==
  [day : {1, 18}, month : {5, 10}, year : {2025, 2026}]

\* The target of date d in one of its three forms
TargetOf(d, form) ==
  IF form = "int" THEN IntTarget(d.day)
  ELSE IF form = "iso" THEN StrTarget(IsoOf(d))
  ELSE StrTarget(LocalizedOf(d))

\* _match_target on the record of date d and the target of date e
DateMatchCalls ==
  {[op |-> "_match_target", form |-> f, rdate |-> d, tdate |-> e,
    rec |-> DateRecord(<<"S", "a", "b", "t", "u", ",", " ">> \o LocalizedOf(d), IsoOf(d)),
    target |-> TargetOf(e, f)] :
     d \in MatchDates, e \in MatchDates, f \in {"int", "iso", "localized"}}

\* String targets of any other kind
FreeTargets ==
  {
    <<"O", "k", "t", "o", "b", "e", "r">>, <<"o", "K", "T">>, <<>>,
    <<" ", " ">>, <<"1", "8">>,
    <<"S", "a", "b", "t", "u", ",", " ", "1", "8">>,
    <<"1", " ", "F", "o", "o", " ", "2", "0", "2", "5">>,
    <<"1", "8", " ", "o", "k", "t", "o", "b", "e", "r", " ", "2", "0", "2", "5">>,
    <<" ", " ", "S", "a", "b", "t", "u", ",", "\t", "1", "8", " ", " ", " ", "O", "K", "T", "O", "B", "E", "R", " ", "2", "0", "2", "5", " ">>,
    <<"x">>,
    <<" ", "2", "0", "2", "5", "-", "1", "0", "-", "1", "8", " ">>,
    <<"2", "0", "2", "5", "-", "1", "0", "-", "1">>, <<"2", "0", "2", "5">> }

\* Records with a date, with a date text that is no date, with no text
FreeRecords ==
  { DateRecord(<<"S", "a", "b", "t", "u", ",", " ", "1", "8", " ", "O", "k", "t", "o", "b", "e", "r", " ", "2", "0", "2", "5">>, <<"2", "0", "2", "5", "-", "1", "0", "-", "1", "8">>),
    DateRecord(<<"J", "u", "m", "a", "t", ",", " ", "1", "7", " ", "O", "k", "t", "o", "b", "e", "r", " ", "2", "0", "2", "5">>, <<"2", "0", "2", "5", "-", "1", "0", "-", "1", "7">>),
    DateRecord(<<"S", "a", "b", "t", "u", ",", " ", "1", "8", " ", "M", "e", "i", " ", "2", "0", "2", "5">>, <<"2", "0", "2", "5", "-", "0", "5", "-", "1", "8">>),
    DateRecord(<<"O", "k", "t", "o", "b", "e", "r", " ", "2", "0", "2", "5">>, None),
    DateRecord(<<>>, None) }

\* The record and target dates of a call that has none
NoDate == [day |-> 0, month |-> 0, year |-> 0]

FreeMatchCalls ==
  {[op |-> "_match_target", form |-> "free", rdate |-> NoDate, tdate |-> NoDate,
    rec |-> r, target |-> StrTarget(t)] :
     r \in FreeRecords, t \in FreeTargets}

MatchCalls == DateMatchCalls \cup FreeMatchCalls

\* str.upper(), one character and a string
UpperChar(c) ==
  IF c \in Range(LowerChars)
    THEN UpperChars[CHOOSE i \in 1..26 : LowerChars[i] = c]
    ELSE c
Upper(txt) == [i \in 1..Len(txt) |-> UpperChar(txt[i])] \o <<>>

\* The dates written out for to_iso_from_tanggal_id
IsoDates == [day : {1, 9, 18, 31}, month : 1..12, year : {1999, 2025}]

\* A date as the site may write it: bare, after a weekday label, in capitals
\* with a two-digit day, in lower case with runs of whitespace
WrittenAs(d, style) ==
  IF style = "bare" THEN LocalizedOf(d)
  ELSE IF style = "weekday" THEN <<"R", "a", "b", "u", ",", " ">> \o LocalizedOf(d)
  ELSE IF style = "capitals"
    THEN TwoDigits(d.day) \o <<" ">> \o Upper(MonthNames[d.month]) \o <<" ">>
           \o FourDigits(d.year)
  ELSE <<" ", " ", "R", "a", "b", "u", ",", "\t">> \o DayText(d.day) \o <<" ", " ", " ">>
         \o Lower(MonthNames[d.month]) \o <<"\n", " ">> \o FourDigits(d.year)
         \o <<" ">>

DateStyles == {"bare", "weekday", "capitals", "spaced"}

\* Texts without the pattern or with a name that is no month
NoDateTexts ==
  {
    <<"1", " ", "F", "o", "o", " ", "2", "0", "2", "5">>,
    <<"1", " ", "O", "k", "t", " ", "2", "0", "2", "5">>,
    <<"1", "8", " ", "O", "k", "t", "o", "b", "e", "r", "s", " ", "2", "0", "2", "5">>,
    <<"R", "a", "b", "u", ",", " ", "1", " ", "O", "k", "t", "o", "b", "e", "r">>,
    <<"O", "k", "t", "o", "b", "e", "r", " ", "2", "0", "2", "5">>, <<>>,
    <<" ", " ", " ">>,
    <<"1", "O", "k", "t", "o", "b", "e", "r", " ", "2", "0", "2", "5">>,
    <<"1", " ", "O", "k", "t", "o", "b", "e", "r", " ", "2", "5">>,
    <<"1", " ", "O", "k", "t", "o", "b", "e", "r", "2", "0", "2", "5">>,
    <<"R", "a", "b", "u">>,
    <<"2", "0", "2", "5", "-", "1", "0", "-", "0", "1">>,
    <<"1", " ", "1", "0", " ", "2", "0", "2", "5">> }

\* to_iso_from_tanggal_id on a written date, and on a text that holds none
IsoCalls ==
  {[op |-> "to_iso_from_tanggal_id", kind |-> "date", date |-> d,
    text |-> WrittenAs(d, st)] : d \in IsoDates, st \in DateStyles}
  \cup
  {[op |-> "to_iso_from_tanggal_id", kind |-> "none", date |-> NoDate,
    text |-> t] : t \in NoDateTexts}

\* The pure calls made
PureCalls == ParseCalls \cup MatchCalls \cup IsoCalls

\* A call that returned v; a call that raised e
Returned(v) == [done |-> TRUE, raised |-> "", value |-> v]
Raised(e) == [done |-> TRUE, raised |-> e, value |-> <<>>]

PureInit ==
  /\ PollInit
  /\ call \in PureCalls
  /\ result = Pending
  /\ script = <<>>
  /\ ran = <<>>

\* The variables of the polling functions
poll_vars ==
  <<pc, fn, argv, args, s, built, closed, err_count, requests_made, attempt,
    row, outcome, retval, exc, exit_status, fetches, fetch_session, resp,
    sleeps, last_sleep, streak, refreshes, periodic_handle, interrupted,
    max_open>>

\* rows = parse_kapasitas_rows(html)
CallParse ==
  /\ call.op = "parse_kapasitas_rows"
  /\ result = Pending
  /\ result' = IF parse_raises(call.html)
                 THEN Raised("ValueError")
                 ELSE Returned(parse_kapasitas_rows(call.html))
  /\ UNCHANGED <<poll_vars, call, script, ran>>

\* _match_target(row, target)
CallMatch ==
  /\ call.op = "_match_target"
  /\ result = Pending
  /\ result' = Returned(match_target(call.rec, call.target))
  /\ UNCHANGED <<poll_vars, call, script, ran>>

\* to_iso_from_tanggal_id(text)
CallToIso ==
  /\ call.op = "to_iso_from_tanggal_id"
  /\ result = Pending
  /\ result' = Returned(to_iso_from_tanggal_id(call.text))
  /\ UNCHANGED <<poll_vars, call, script, ran>>

PureNext ==
  \/ CallParse
  \/ CallMatch
  \/ CallToIso

PureSpec == PureInit /\ [][PureNext]_vars

\* ------------------------------------------------------------------------
\* The two until-available loops run on the same script of responses
\* ------------------------------------------------------------------------

\* Bound: the length of the enumerated scripts
MaxScript == 4

\* get_kapasitas_by_date called directly, without a session
get_kapasitas_by_date(a) ==
  /\ pc = "idle"
  /\ fn' = "get_kapasitas_by_date"
  /\ args' = [target |-> a.target, year_month |-> a.year_month,
              loop_forever |-> a.loop_forever, interval_sec |-> a.interval_sec,
              stop_when_available |-> a.stop_when_available,
              max_attempts |-> 0]
  /\ NewSession
  /\ pc' = IF a.loop_forever THEN "loop_once" ELSE "once"
  /\ UNCHANGED <<argv, outcome, exc, exit_status, retval, closed, err_count,
                 requests_made, attempt, row, fetches, fetch_session, resp,
                 sleeps, last_sleep, streak, refreshes, periodic_handle,
                 interrupted>>
  /\ UNCHANGED aux

\* Every sequence of at most MaxScript responses, and sequences long enough
\* for the periodic refresh of the indefinite loop
ShortScripts ==
  UNION {[1..n -> Responses] : n \in 0..MaxScript}

LongScripts ==
  {[i \in 1..RefreshEvery |-> "NotListed"] \o tail :
     tail \in {<<>>, <<"error">>, <<"Available">>}}
  \cup
  {[i \in 1..(RefreshEvery - 1) |-> "Full"] \o tail :
     tail \in {<<"Available">>, <<"error", "Available">>}}

Scripts == ShortScripts \cup LongScripts

\* The arguments both loops are run with on a script: max_attempts is the
\* length of the script or one more
EquivCallsFor(sc) ==
  [op : {"until_available"},
   target : {IntTarget(18), StrTarget(<<"2", "0", "2", "5", "-", "1", "0", "-", "1", "8">>)},
   year_month : {<<"2", "0", "2", "5", "-", "1", "0">>},
   interval_sec : {DefaultInterval},
   max_attempts : {Len(sc), Len(sc) + 1}]

EquivInit ==
  /\ PollInit
  /\ script \in Scripts
  /\ call \in EquivCallsFor(script)
  /\ result = Pending
  /\ ran = <<>>

\* First run: wait_until_tanggal_tersedia(target=..., max_attempts=...)
RunWait ==
  /\ ran = <<>>
  /\ wait_until_tanggal_tersedia(
       [target |-> call.target, year_month |-> call.year_month,
        interval_sec |-> call.interval_sec,
        max_attempts |-> call.max_attempts])

\* Second run: get_kapasitas_by_date(loop_forever=True,
\* stop_when_available=True) with the same target
RunLoop ==
  /\ Len(ran) = 1
  /\ get_kapasitas_by_date(
       [target |-> call.target, year_month |-> call.year_month,
        interval_sec |-> call.interval_sec, loop_forever |-> TRUE,
        stop_when_available |-> TRUE])

\* The cycles of a scripted run are answered by the script, in order
ScriptedWaitCycle ==
  /\ fetches < Len(script)
  /\ WaitCycle(script[fetches + 1])

ScriptedLoopCycleOk ==
  /\ fetches < Len(script)
  /\ LoopCycleOk(script[fetches + 1])

ScriptedLoopCycleFail ==
  /\ fetches < Len(script)
  /\ script[fetches + 1] = "error"
  /\ LoopCycleFail

\* A scripted run is over when the call has ended, or when it is about to
\* fetch and the script has no response left; what it did is recorded and
\* the next run starts afresh
RunEnds ==
  /\ fn # ""
  /\ Len(ran) < 2
  /\ \/ pc = "done"
     \/ pc \in {"wait_once", "loop_once"} /\ fetches = Len(script)
  /\ ran' = Append(ran, [fn |-> fn, cycles |-> fetches, outcome |-> outcome,
                         retval |-> retval, exc |-> exc,
                         refreshes |-> refreshes])
  /\ pc' = "idle"
  /\ fn' = ""
  /\ argv' = <<>>
  /\ args' = NoArgs
  /\ s' = 0
  /\ built' = 0
  /\ closed' = {}
  /\ err_count' = 0
  /\ requests_made' = 0
  /\ attempt' = 0
  /\ row' = NoRow
  /\ outcome' = "running"
  /\ retval' = NoRow
  /\ exc' = ""
  /\ exit_status' = <<>>
  /\ fetches' = 0
  /\ fetch_session' = 0
  /\ resp' = ""
  /\ sleeps' = 0
  /\ last_sleep' = 0
  /\ streak' = 0
  /\ refreshes' = [periodic |-> 0, streak |-> 0]
  /\ periodic_handle' = 0
  /\ interrupted' = ""
  /\ max_open' = 0
  /\ UNCHANGED <<call, result, script>>

EquivNext ==
  \/ RunWait
  \/ ScriptedWaitCycle
  \/ WaitSleep
  \/ RunLoop
  \/ ScriptedLoopCycleOk
  \/ ScriptedLoopCycleFail
  \/ LoopRefresh
  \/ LoopSleep
  \/ LoopBackoff
  \/ LoopErrRefresh
  \/ RunEnds

EquivSpec == EquivInit /\ [][EquivNext]_vars

\* ------------------------------------------------------------------------
\* Properties
\* ------------------------------------------------------------------------

\* The indefinite loop: get_kapasitas_by_date with loop_forever=True
InLoop == fn = "get_kapasitas_by_date" /\ args.loop_forever

\* The single check: get_kapasitas_by_date with loop_forever=False
InSingle == fn = "get_kapasitas_by_date" /\ ~args.loop_forever

\* wait_until_tanggal_ada or wait_until_tanggal_tersedia
InWait == fn \in {"wait_until_tanggal_ada", "wait_until_tanggal_tersedia"}

\* C1: in every polling loop a failed cycle neither ends the loop nor
\* reaches the caller: a loop raises nothing but an interrupt it did not
\* catch, and a loop that has ended right after a failed cycle was either
\* interrupted or had used up max_attempts.
C1_FailuresStayInLoop ==
  (InLoop \/ InWait) =>
    /\ outcome = "raised" => (exc = "KeyboardInterrupt" /\ interrupted # "")
    /\ exc # "Exception"
    /\ (pc = "done" /\ resp = "error" /\ interrupted = "") =>
         /\ InWait
         /\ outcome = "returned"
         /\ retval = NoRow
         /\ attempt = args.max_attempts
         /\ sleeps = fetches

\* C1 witness: an indefinite loop has returned a record after cycles that
\* failed and cycles that succeeded.
C1_Witness ==
  /\ InLoop
  /\ fetches - requests_made >= 3
  /\ requests_made >= 2
  /\ outcome = "returned"
  /\ retval # NoRow

\* min(60, 2 ** k), written out
Penalty(k) == IF 2 ^ k < BackoffCap THEN 2 ^ k ELSE BackoffCap

\* The sleep that follows a failed cycle has returned and the next cycle has
\* not begun
AfterBackoffInLoop ==
  /\ InLoop
  /\ resp = "error"
  /\ pc \in {"loop_err_refresh", "loop_once"}

AfterFailedCycleInWait ==
  /\ InWait
  /\ resp = "error"
  /\ interrupted = ""
  /\ pc \in {"wait_once", "done"}

C3_SuccessResetsCounter ==
  /\ resp \in PageNames => (err_count = 0 /\ streak = 0)
  /\ ( /\ InLoop
       /\ args.stop_when_available
       /\ resp \in PageNames
       /\ RowAvailable(row)
       /\ interrupted = ""
       /\ pc # "loop_refresh" ) =>
        /\ pc = "done"
        /\ outcome = "returned"
        /\ retval = row
        /\ err_count = 0
        /\ sleeps = fetches - 1

\* C3 witness: loop-until-available, three failed cycles (and the rebuild
\* they cause), then one successful cycle with an available record.
C3_Witness ==
  /\ InLoop
  /\ args.stop_when_available
  /\ fetches = 4
  /\ requests_made = 1
  /\ refreshes.streak = 1
  /\ outcome = "returned"
  /\ RowAvailable(retval)
  /\ err_count = 0
  /\ sleeps = 3

\* The refresh of the 100th, 200th, ... successful cycle is about to run, or
\* was interrupted
PeriodicPending == pc = "loop_refresh" \/ interrupted = "loop_refresh"

\* C4: in the indefinite loop the periodic rebuilds number one per 100
\* successful cycles whatever failures lie in between (exactly one at 100
\* successful cycles), every completed rebuild is a periodic one or one after
\* an error streak, and a fetch issued after the 100th successful cycle runs
\* on the session the periodic rebuild created or a later one, never on the
\* original session.
C4_PeriodicRefresh ==
  InLoop =>
    /\ refreshes.periodic =
         (requests_made \div RefreshEvery) - (IF PeriodicPending THEN 1 ELSE 0)
    /\ interrupted = "" =>
         /\ built = 1 + refreshes.periodic + refreshes.streak
         /\ s = built
         /\ closed = 1..(built - 1)
    /\ (requests_made = RefreshEvery /\ ~PeriodicPending) =>
         /\ refreshes.periodic = 1
         /\ periodic_handle > 1
         /\ 1 \in closed
    /\ ( /\ requests_made >= RefreshEvery
         /\ (requests_made > RefreshEvery \/ resp \notin PageNames) ) =>
         /\ fetch_session >= periodic_handle
         /\ periodic_handle > 1
         /\ fetch_session # 1

\* C4 witness: 101 successful cycles with a failure among them; the 101st
\* fetch ran on the session of the one periodic rebuild.
C4_Witness ==
  /\ InLoop
  /\ requests_made = RefreshEvery + 1
  /\ fetches > requests_made
  /\ resp \in PageNames
  /\ refreshes.periodic = 1
  /\ fetch_session = periodic_handle
  /\ fetch_session \notin closed

C6_InterruptReturnsNone ==
  InLoop =>
    /\ exc # "KeyboardInterrupt"
    /\ interrupted # "" =>
         /\ pc = "done"
         /\ outcome = "returned"
         /\ retval = NoRow
         /\ exc = ""
         /\ exit_status = <<0>>

\* C6 witness: interrupted during a backoff sleep.
C6_Witness ==
  /\ InLoop
  /\ interrupted = "loop_backoff"
  /\ outcome = "returned"
  /\ retval = NoRow

\* C7: the indefinite loop ends only by interrupt or, with
\* stop_when_available, by returning the record of the first successful
\* cycle whose record is available: without the flag it is still running
\* unless interrupted; with it, while it runs no successful cycle has yet
\* seen an available record, and what it returns is the available record of
\* its last cycle.
C7_LoopStopsOnlyWhenAvailable ==
  InLoop =>
    /\ outcome # "raised"
    /\ (pc = "done" /\ interrupted = "") =>
         /\ args.stop_when_available
         /\ outcome = "returned"
         /\ RowAvailable(retval)
         /\ resp \in PageNames
         /\ retval = Found(resp, args.target)
    /\ (args.stop_when_available /\ pc \in LoopPcs \ {"loop_refresh"}) =>
         ~RowAvailable(row)
    /\ (pc \in LoopPcs) => attempt = fetches

\* C7 witness: without stop_when_available the loop goes on after a cycle
\* that found the target available.
C7_Witness ==
  /\ InLoop
  /\ ~args.stop_when_available
  /\ pc = "loop_once"
  /\ RowAvailable(row)
  /\ requests_made >= 2

\* C8: the bounded loops run at most max_attempts cycles of one fetch each,
\* every cycle that does not stop is followed by one sleep of interval_sec,
\* the record of the first cycle whose stop test holds is returned with no
\* further cycle, and None is returned after max_attempts cycles and sleeps;
\* fetches + sleeps grows with every step and never exceeds 2 * max_attempts,
\* so the call ends.
C8_BoundedWait ==
  InWait =>
    /\ attempt <= args.max_attempts
    /\ fetches <= args.max_attempts
    /\ sleeps <= args.max_attempts
    /\ sleeps > 0 => last_sleep = args.interval_sec
    /\ pc = "wait_once" => (fetches = attempt - 1 /\ sleeps = attempt - 1)
    /\ pc = "wait_sleep" => (fetches = attempt /\ sleeps = attempt - 1)
    /\ pc \in {"wait_once", "wait_sleep"} => ~WaitStop(fn, row)
    /\ (pc = "done" /\ interrupted = "") =>
         /\ outcome = "returned"
         /\ IF retval # NoRow
              THEN /\ WaitStop(fn, retval)
                   /\ resp \in PageNames
                   /\ retval = Found(resp, args.target)
                   /\ fetches = attempt
                   /\ sleeps = attempt - 1
              ELSE /\ fetches = args.max_attempts
                   /\ sleeps = args.max_attempts

\* C8 witness: wait_until_tanggal_tersedia gave up after max_attempts cycles
\* that saw the day listed but never available.
C8_Witness ==
  /\ fn = "wait_until_tanggal_tersedia"
  /\ pc = "done"
  /\ interrupted = ""
  /\ retval = NoRow
  /\ row # NoRow
  /\ args.max_attempts >= 3
  /\ fetches = args.max_attempts

\* C9: the single check issues one fetch on the session it was given, never
\* sleeps, counts no error and rebuilds nothing; it ends with that one cycle:
\* it returns what _once found (a record, or None when the target is not
\* listed), and a failure of the fetch reaches the caller as that exception.
C9_SingleCheck ==
  InSingle =>
    /\ fetches <= 1
    /\ sleeps = 0
    /\ err_count = 0
    /\ built = 1 /\ s = 1 /\ closed = {}
    /\ refreshes = [periodic |-> 0, streak |-> 0]
    /\ pc \in {"once", "done"}
    /\ (pc = "done" /\ interrupted = "") =>
         /\ fetches = 1
         /\ IF resp = "error"
              THEN /\ outcome = "raised"
                   /\ exc = "Exception"
                   /\ exit_status = <<1>>
              ELSE /\ outcome = "returned"
                   /\ retval = Found(resp, args.target)
                   /\ exit_status = <<0>>

\* C9 witness: the one fetch of a single check failed and the exception
\* reached the caller.
C9_Witness ==
  /\ InSingle
  /\ fetches = 1
  /\ resp = "error"
  /\ outcome = "raised"
  /\ exc = "Exception"

\* The --target values from which no year-month can be derived
UnderivableTargets ==
  {c.target : c \in
     {d \in CliTargets :
        \/ IsDigitStr(d.target)
        \/ derive_year_month_from_target(StrTarget(d.target)) = None}}

\* C10: a command line without --year-month whose target is a bare day, or
\* any other target with no derivable year-month, ends the process with
\* status 1 before a session is built and before any request; a run that has
\* built a session or issued a request has a year-month.
C10_NoYearMonthExitsEarly ==
  argv # <<>> =>
    /\ ( /\ argv[1].year_month = None
         /\ argv[1].target \in UnderivableTargets ) =>
         /\ pc = "done"
         /\ outcome = "raised"
         /\ exc = "SystemExit"
         /\ exit_status = <<1>>
         /\ built = 0
         /\ s = 0
         /\ fetches = 0
    /\ (built > 0 \/ fetches > 0) =>
         /\ args.year_month # None
         /\ Truthy(args.year_month)

\* C10 witness: --target 18 without --year-month has exited with status 1,
\* no session built.
C10_Witness ==
  /\ argv # <<>>
  /\ argv[1].target = <<"1", "8">>
  /\ argv[1].year_month = None
  /\ exc = "SystemExit"
  /\ exit_status = <<1>>
  /\ built = 0

\* ------------------------------------------------------------------------
\* Properties of the pure functions
\* ------------------------------------------------------------------------

\* The call of parse_kapasitas_rows has returned
ParseReturned ==
  call.op = "parse_kapasitas_rows" /\ result.done /\ result.raised = ""

\* The <tr> elements of the markup with two cells or more, in document order
KeptRows == SelectSeq(call.html, LAMBDA tr : tr.ncells >= 2)

\* C11: in every record parse_kapasitas_rows returns, isFull and available
\* are not both true, and sisa = 0 comes with isFull = true and available =
\* false.
C11_RecordInvariant ==
  ParseReturned =>
    \A i \in 1..Len(result.value) :
      /\ ~(result.value[i].isFull /\ result.value[i].available)
      /\ result.value[i].sisa = SomeInt(0) =>
           (result.value[i].isFull /\ ~result.value[i].available)

\* C11 witness: a record with status "Tersedia" and hidden value "0": sisa
\* is 0, the record is full and not available.
C11_Witness ==
  /\ ParseReturned
  /\ Len(result.value) = 1
  /\ result.value[1].statusText = <<"T", "e", "r", "s", "e", "d", "i", "a">>
  /\ result.value[1].sisa = SomeInt(0)
  /\ result.value[1].isFull
  /\ ~result.value[1].available

\* A string of decimal digits, read without int(): it is zero when every
\* digit is "0"
IsDecimalStr(h) == h # None /\ Len(h) > 0 /\ \A i \in 1..Len(h) : h[i] \in DigitSet
DecimalIsZero(h) == \A i \in 1..Len(h) : h[i] = "0"

\* isFull and available of a <tr> as the claim words them
ExpectedFull(tr) ==
  \/ Contains(Lower(tr.status_text), <<"p", "e", "n", "u", "h">>)
  \/ /\ Contains(Lower(tr.status_text), <<"k", "u", "o", "t", "a", " ", "p", "e", "n", "u", "h">>)
     /\ tr.hide # None
     /\ ~IsDecimalStr(tr.hide)
  \/ (IsDecimalStr(tr.hide) /\ DecimalIsZero(tr.hide))

ExpectedAvailable(tr) ==
  /\ ~ExpectedFull(tr)
  /\ \/ Contains(Lower(tr.status_text), <<"t", "e", "r", "s", "e", "d", "i", "a">>)
     \/ Contains(Lower(tr.status_text), <<"a", "v", "a", "i", "l", "a", "b", "l", "e">>)
     \/ Contains(Lower(tr.status_text), <<"t", "e", "r", "s", "i", "s", "a">>)
     \/ (IsDecimalStr(tr.hide) /\ ~DecimalIsZero(tr.hide))

\* C12: for every record returned, isFull holds exactly when the lower-cased
\* status contains "penuh", or contains "kuota penuh" while the hidden
\* element exists with no parseable integer, or sisa is 0; available holds
\* exactly when isFull does not and the status contains "tersedia",
\* "available" or "tersisa" or sisa is positive.  "Kuota Penuh" with an
\* empty hidden value gives isFull, not available, sisa None; "Tersedia" with
\* hidden value "5" gives sisa 5, not isFull, available.
C12_Classification ==
  ParseReturned =>
    /\ Len(result.value) = Len(KeptRows)
    /\ \A i \in 1..Len(result.value) :
         /\ result.value[i].isFull = ExpectedFull(KeptRows[i])
         /\ result.value[i].available = ExpectedAvailable(KeptRows[i])
         /\ (result.value[i].sisa # NoInt) = IsDecimalStr(KeptRows[i].hide)
         /\ ( /\ KeptRows[i].status_text = <<"K", "u", "o", "t", "a", " ", "P", "e", "n", "u", "h">>
              /\ KeptRows[i].hide = <<>> ) =>
              /\ result.value[i].isFull
              /\ ~result.value[i].available
              /\ result.value[i].sisa = NoInt
         /\ ( /\ KeptRows[i].status_text = <<"T", "e", "r", "s", "e", "d", "i", "a">>
              /\ KeptRows[i].hide = <<"5">> ) =>
              /\ result.value[i].sisa = SomeInt(5)
              /\ ~result.value[i].isFull
              /\ result.value[i].available

\* C12 witness: the record of status "Kuota Penuh" with an empty hidden
\* value.
C12_Witness ==
  /\ ParseReturned
  /\ Len(result.value) = 1
  /\ result.value[1].statusText = <<"K", "u", "o", "t", "a", " ", "P", "e", "n", "u", "h">>
  /\ call.html[1].hide = <<>>
  /\ result.value[1].isFull
  /\ ~result.value[1].available
  /\ result.value[1].sisa = NoInt

\* C13 as stated: on every markup parse_kapasitas_rows returns and does not
\* raise; it returns one record per <tr> of two cells or more, in document
\* order, also when the date or the hidden quota of the row cannot be
\* parsed.
C13_ParseNeverRaises ==
  (call.op = "parse_kapasitas_rows" /\ result.done) =>
    /\ result.raised = ""
    /\ Len(result.value) = Len(KeptRows)
    /\ \A i \in 1..Len(result.value) :
         /\ result.value[i].tanggalText = KeptRows[i].tanggal_text
         /\ result.value[i].statusText = KeptRows[i].status_text

\* The call of _match_target has returned
MatchReturned == call.op = "_match_target" /\ result.done /\ result.raised = ""

\* C14: a record of date d matches the integer target of its day, the ISO
\* target of d and the localized target "<day> <MonthName> <year>" of d; an
\* ISO or localized target of another date does not match it (an integer
\* target matches exactly the records of that day of the month).
C14_TargetFormsAgree ==
  (MatchReturned /\ call.form # "free") =>
    /\ call.rdate = call.tdate => result.value
    /\ call.form \in {"iso", "localized"} =>
         (result.value <=> call.rdate = call.tdate)
    /\ call.form = "int" =>
         (result.value <=> call.rdate.day = call.tdate.day)

\* C14 witness: the record of 1 Mei 2026 matched by the localized target
\* "1 Mei 2026".
C14_Witness ==
  /\ MatchReturned
  /\ call.form = "localized"
  /\ call.target.str = <<"1", " ", "M", "e", "i", " ", "2", "0", "2", "6">>
  /\ call.rec.tanggalISO = <<"2", "0", "2", "6", "-", "0", "5", "-", "0", "1">>
  /\ result.value

\* hay contains needle when case is ignored, position by position
ContainsIgnoringCase(hay, needle) ==
  \E o \in 0..(Len(hay) - Len(needle)) :
    \A k \in 1..Len(needle) : LowerChar(hay[o + k]) = LowerChar(needle[k])

\* C15: a string target whose trimmed form is not ISO-shaped matches exactly
\* the records whose tanggalISO equals its normalized date when it has one,
\* and otherwise exactly the records whose tanggalText contains the trimmed
\* target, case ignored; the empty target matches every record.
C15_StringTargetFallback ==
  ( /\ MatchReturned
    /\ call.target.type = "str"
    /\ ~IsIsoShaped(Strip(call.target.str)) ) =>
      /\ result.value <=>
           IF to_iso_from_tanggal_id(Strip(call.target.str)) # None
             THEN call.rec.tanggalISO = to_iso_from_tanggal_id(Strip(call.target.str))
             ELSE ContainsIgnoringCase(call.rec.tanggalText, Strip(call.target.str))
      /\ Strip(call.target.str) = <<>> => result.value

\* C15 witness: the target "oKT", which is no date, matches a record by its
\* date text.
C15_Witness ==
  /\ MatchReturned
  /\ call.form = "free"
  /\ call.target.str = <<"o", "K", "T">>
  /\ call.rec.tanggalText = <<"O", "k", "t", "o", "b", "e", "r", " ", "2", "0", "2", "5">>
  /\ call.rec.tanggalISO = None
  /\ result.value

\* C17: to_iso_from_tanggal_id returns, and never raises; for a text that
\* writes a date as "<day> <MonthName> <year>" with a month name of the
\* table, in any case, bare or after a weekday label, with any runs of
\* whitespace, it returns YYYY-MM-DD of that date, zero-padded
\* ("Rabu, 1 Oktober 2025" gives "2025-10-01"); for a text without the
\* pattern or with an unknown month name it returns None.
C17_ToIso ==
  (call.op = "to_iso_from_tanggal_id" /\ result.done) =>
    /\ result.raised = ""
    /\ call.kind = "date" => result.value = IsoOf(call.date)
    /\ call.kind = "none" => result.value = None
    /\ call.text = <<"R", "a", "b", "u", ",", " ", "1", " ", "O", "k", "t", "o", "b", "e", "r", " ", "2", "0", "2", "5">> =>
         result.value = <<"2", "0", "2", "5", "-", "1", "0", "-", "0", "1">>

\* C17 witness: "Rabu, 1 Oktober 2025" gave "2025-10-01".
C17_Witness ==
  /\ call.op = "to_iso_from_tanggal_id"
  /\ call.text = <<"R", "a", "b", "u", ",", " ", "1", " ", "O", "k", "t", "o", "b", "e", "r", " ", "2", "0", "2", "5">>
  /\ result.done
  /\ result.value = <<"2", "0", "2", "5", "-", "1", "0", "-", "0", "1">>

\* isFull and available computed without the full_by_hidden disjunct
WithoutFullByHidden(st_low, sisa) ==
  LET is_full   == Contains(st_low, Penuh) \/ sisa = SomeInt(0)
      available == /\ ~is_full
                   /\ \/ \E k \in AvailableWords : Contains(st_low, k)
                      \/ (sisa # NoInt /\ sisa[1] > 0)
  IN [isFull |-> is_full, available |-> available]

\* full_by_hidden of a <tr>: "kuota penuh" in the status text and a .hide
\* element that is empty or holds no number
FullByHidden(tr) ==
  /\ Contains(Lower(tr.status_text), KuotaPenuh)
  /\ tr.hide # None
  /\ ~IsDigitStr(tr.hide)

\* C21: for every status text and every state of the .hide element (absent,
\* empty, not a number, a number) isFull of the record equals (status
\* contains "penuh") or (sisa = 0), and isFull and available are what they
\* would be without the full_by_hidden disjunct; wherever full_by_hidden
\* is true the status text alone already makes the row full.
C21_FullByHiddenRedundant ==
  ParseReturned =>
    \A i \in 1..Len(result.value) :
      /\ result.value[i].isFull =
           ( \/ Contains(Lower(result.value[i].statusText), Penuh)
             \/ result.value[i].sisa = SomeInt(0) )
      /\ result.value[i].isFull =
           WithoutFullByHidden(Lower(result.value[i].statusText),
                               result.value[i].sisa).isFull
      /\ result.value[i].available =
           WithoutFullByHidden(Lower(result.value[i].statusText),
                               result.value[i].sisa).available
      /\ FullByHidden(KeptRows[i]) =>
           Contains(Lower(KeptRows[i].status_text), Penuh)

\* C21 witness: a record of status "Kuota Penuh, tersedia" whose .hide
\* element holds "x": full_by_hidden is true, the record is full and not
\* available, as it is without the disjunct.
C21_Witness ==
  /\ ParseReturned
  /\ Len(result.value) = 1
  /\ result.value[1].statusText = <<"K", "u", "o", "t", "a", " ", "P", "e", "n", "u", "h", ",", " ", "t", "e", "r", "s", "e", "d", "i", "a">>
  /\ call.html[1].hide = <<"x">>
  /\ FullByHidden(call.html[1])
  /\ result.value[1].sisa = NoInt
  /\ result.value[1].isFull
  /\ ~result.value[1].available

\* ------------------------------------------------------------------------
\* Properties of the polling functions, continued
\* ------------------------------------------------------------------------

\* The record of rows that matches t and has no matching record before it,
\* NoRow when none matches
EarliestMatch(rows, t) ==
  IF \A i \in 1..Len(rows) : ~match_target(rows[i], t) THEN NoRow
  ELSE <<rows[CHOOSE i \in 1..Len(rows) :
                /\ match_target(rows[i], t)
                /\ \A j \in 1..(i - 1) : ~match_target(rows[j], t)]>>

\* EarliestMatch on the records of every response body, for every target
EarliestTable ==
  {[page |-> r, target |-> t,
    row |-> EarliestMatch(parse_kapasitas_rows(Pages[r]), t)] :
     r \in PageNames, t \in PollTargets}

\* C16: after every cycle whose fetch and parse completed, the selected
\* record is the first record of the parsed response that matches the
\* target, None when no record matches; a cycle that selected None is no
\* failure: no error is counted and no exception raised.
C16_FirstMatchOrNone ==
  (fn # "" /\ resp \in PageNames) =>
    /\ \E e \in EarliestTable :
         e.page = resp /\ e.target = args.target /\ e.row = row
    /\ row = NoRow =>
         /\ err_count = 0
         /\ streak = 0
         /\ exc \in {"", "KeyboardInterrupt"}
         /\ exc = "KeyboardInterrupt" => interrupted # ""
         /\ (InSingle /\ interrupted = "") =>
              (outcome = "returned" /\ retval = NoRow /\ exit_status = <<0>>)

\* C16 witness: a single check with target "Oktober", which two records of
\* the response match, returned the first of them.
C16_Witness ==
  /\ InSingle
  /\ resp = "Full"
  /\ args.target = StrTarget(<<"O", "k", "t", "o", "b", "e", "r">>)
  /\ outcome = "returned"
  /\ retval # NoRow
  /\ retval[1].tanggalISO = <<"2", "0", "2", "5", "-", "1", "0", "-", "1", "7">>

\* C18: on every session refresh, periodic or after an error streak, the
\* old session is closed before the new one is built: never more than one
\* session is open, the session the indefinite loop holds while it runs is
\* the one built last and is open, all earlier ones are closed, and every
\* fetch goes out on the held session, which is open at that moment.
OneOpenHandle ==
  /\ max_open <= 1
  /\ OpenCount(built, closed) <= 1
  /\ (InLoop /\ pc \in LoopPcs) =>
       /\ s = built
       /\ s \notin closed
       /\ closed = 1..(built - 1)
       /\ built = 1 + refreshes.periodic + refreshes.streak

FetchOnOpenHandle ==
  (InLoop /\ fetches' # fetches) =>
    /\ fetch_session' = s
    /\ s \notin closed
    /\ s = built

C18_CloseBeforeBuild == []OneOpenHandle /\ [][FetchOnOpenHandle]_vars

\* C18 witness: the indefinite loop has refreshed its session for both
\* reasons and has fetched on the third session, the first two closed.
C18_Witness ==
  /\ InLoop
  /\ refreshes.periodic >= 1
  /\ refreshes.streak >= 1
  /\ closed = {1, 2}
  /\ s = 3
  /\ fetch_session = 3
  /\ max_open = 1

\* C19: run on the same sequence of cycle outcomes, of a length up to
\* max_attempts and without an interrupt, wait_until_tanggal_tersedia and
\* the indefinite loop with stop_when_available make the same number of
\* fetches; neither raises; if either returns a record, both return, and the
\* same record; the only other return is the None of
\* wait_until_tanggal_tersedia after max_attempts cycles, where the
\* indefinite loop is still polling.
BothRan == Len(ran) = 2

C19_SamePrimitive ==
  BothRan =>
    /\ ran[1].fn = "wait_until_tanggal_tersedia"
    /\ ran[2].fn = "get_kapasitas_by_date"
    /\ ran[1].cycles = ran[2].cycles
    /\ ran[1].outcome # "raised" /\ ran[2].outcome # "raised"
    /\ ran[2].outcome = "returned" =>
         /\ ran[2].retval # NoRow
         /\ ran[1].outcome = "returned"
         /\ ran[1].retval = ran[2].retval
    /\ (ran[1].outcome = "returned" /\ ran[1].retval # NoRow) =>
         /\ ran[2].outcome = "returned"
         /\ ran[2].retval = ran[1].retval
    /\ (ran[1].outcome = "returned" /\ ran[1].retval = NoRow) =>
         /\ ran[1].cycles = call.max_attempts
         /\ ran[2].outcome = "running"
    /\ ran[1].outcome = "running" =>
         /\ ran[1].cycles = Len(script)
         /\ ran[1].cycles < call.max_attempts
         /\ ran[2].outcome = "running"

\* C19 witness: both loops returned the available record on the fourth
\* cycle, after a failure, a page without the date and a page with the date
\* full.
C19_Witness ==
  /\ BothRan
  /\ script = <<"error", "NotListed", "Full", "Available">>
  /\ ran[1].cycles = 4
  /\ ran[2].cycles = 4
  /\ ran[1].outcome = "returned"
  /\ ran[2].outcome = "returned"
  /\ ran[1].retval # NoRow
  /\ ran[1].retval = ran[2].retval

\* C20: in the indefinite loop a failed cycle is followed by a session
\* rebuild if and only if err_count after that failure is at least 3, so
\* every failure from the third of a streak on rebuilds again; the rebuild
\* comes after the backoff sleep of that failure and before the next fetch;
\* with err_count 1 or 2 there is no rebuild after the failure.
AfterFailureBeforeFetch == InLoop /\ pc = "loop_once" /\ resp = "error"

StreakRebuilds ==
  /\ AfterFailureBeforeFetch =>
       /\ err_count >= 1
       /\ s # fetch_session <=> err_count >= StreakLimit
       /\ err_count >= StreakLimit => (s = fetch_session + 1 /\ fetch_session \in closed)
       /\ sleeps = fetches
       /\ last_sleep = BackoffWait(args.interval_sec, err_count)
  /\ (InLoop /\ pc = "loop_err_refresh") =>
       /\ resp = "error"
       /\ err_count >= StreakLimit
       /\ s = fetch_session
       /\ s \notin closed
       /\ sleeps = fetches
       /\ last_sleep = BackoffWait(args.interval_sec, err_count)
  /\ (InLoop /\ pc = "loop_backoff") =>
       /\ resp = "error"
       /\ s = fetch_session
       /\ sleeps = fetches - 1

StreakRebuildStep ==
  /\ (InLoop /\ refreshes'.streak # refreshes.streak) =>
       /\ refreshes'.streak = refreshes.streak + 1
       /\ pc = "loop_err_refresh"
       /\ pc' = "loop_once"
       /\ err_count' = err_count
       /\ err_count >= StreakLimit
       /\ fetches' = fetches
       /\ sleeps' = sleeps
  /\ (InLoop /\ pc = "loop_backoff" /\ pc' \in LoopPcs) =>
       /\ sleeps' = sleeps + 1
       /\ IF err_count >= StreakLimit
            THEN pc' = "loop_err_refresh"
            ELSE pc' = "loop_once" /\ err_count \in 1..(StreakLimit - 1)
  /\ (InLoop /\ pc = "loop_once" /\ pc' = "loop_backoff") =>
       /\ err_count' = err_count + 1
       /\ UNCHANGED <<s, built, closed, refreshes>>

C20_RebuildWhileStreakLasts == []StreakRebuilds /\ [][StreakRebuildStep]_vars

\* C20 witness: the fifth failure in a row has been followed by the third
\* rebuild, each on the session built by the one before.
C20_Witness ==
  /\ AfterFailureBeforeFetch
  /\ err_count = StreakLimit + 2
  /\ fetches = StreakLimit + 2
  /\ refreshes.streak = 3
  /\ closed = {1, 2, 3}
  /\ fetch_session = 3
  /\ s = 4
====
